---- MODULE Spec2Model ----
(***************************************************************************)
(* smartStream: the auction-calculator snapshot history (ac_scrape.py) and *)
(* the projection-change analysis over it (visualize_ac_change.py).        *)
(*                                                                         *)
(* Conventions of the model                                                *)
(*  - A calendar date (a Timestamp) is a day number and Calendar gives     *)
(*    its text "YYYY-MM-DD", as file names and CSV files carry it;         *)
(*    (last - first).days is the difference of two day numbers.            *)
(*  - A float is an exact rational <<numerator, denominator>> in lowest    *)
(*    terms with a positive denominator; NaN is <<0, 0>>.  IEEE rounding   *)
(*    is not modelled.                                                     *)
(*  - A text with markup is a sequence of tokens: "<", ">" and chunks of   *)
(*    text that contain neither.                                           *)
(*  - A table (DataFrame) is a sequence of records, None is the absent     *)
(*    table, <<>> the empty one.                                           *)
(***************************************************************************)
EXTENDS Integers, Sequences, FiniteSets, TLC

\* ------------------------------------------------------------------ bounds

\* Snapshot dates range over 1..MaxDate.
MaxDate == 3

\* At most MaxRows snapshot rows are kept under ac_data (all files together).
MaxRows == 3

\* Background players beside the probe player in the inputs of SpecStats.
MaxCohort == 3

\* The most players of a report run: one more than a report section shows.
MaxPlayers == 16
\* The pieces of a Name of the name-cleaning runs.
MaxNameLen == 5
\* The games of one day of the schedule.
MaxGames == 2

\* ------------------------------------------------------------- arithmetic

\* The absent table (Python's None): a table no DataFrame equals.
None == <<[none |-> TRUE]>>

Abs(x) == IF x < 0 THEN -x ELSE x

RECURSIVE GCD(_, _)
GCD(a, b) == IF b = 0 THEN a ELSE GCD(b, a % b)

\* The quotient n / d of two numbers, d # 0.
Rat(n, d) ==
    LET g == GCD(Abs(n), Abs(d))
        s == IF d < 0 THEN -1 ELSE 1
    IN  <<(s * n) \div g, (s * d) \div g>>

Zero == <<0, 1>>
NaN == <<0, 0>>
IsNaN(a) == a[2] = 0

RatOfInt(k) == <<k, 1>>
RatAbs(a) == <<Abs(a[1]), a[2]>>
RatLess(a, b) == a[1] * b[2] < b[1] * a[2]
RatLeq(a, b) == a[1] * b[2] <= b[1] * a[2]
RatAdd(a, b) == Rat(a[1] * b[2] + b[1] * a[2], a[2] * b[2])
RatMul(a, b) == Rat(a[1] * b[1], a[2] * b[2])

Range(s) == {s[i] : i \in DOMAIN s}

\* ------------------------------------------------------------ the universe

\* The players of the report runs.
ReportNames ==
    <<"Hal", "Ian", "Jon", "Kay", "Lee", "Max", "Ned", "Oli", "Pam", "Pat", "Pia", "Qin",
      "Rae", "Ray", "Rex", "Ria", "Rik">>

\* The texts the name pattern can take out of a Name made of '<', '>' and
\* "Ann": '>' sorts before 'A'.
MarkupNames ==
    <<">", ">>", ">>>", ">>>>", ">>>Ann", ">>Ann", ">>Ann>", ">Ann", ">Ann>", ">Ann>>",
      ">Ann>Ann">>
AnnNames == <<"Ann", "Ann>", "Ann>>", "Ann>>>", "Ann>>Ann", "Ann>Ann", "Ann>Ann>">>

\* Every name of the model, in ascending (lexicographic) order.
NameOrder ==
    MarkupNames \o AnnNames \o <<"Bob", "Cal", "Dee", "Eli", "Fay", "Gus">>
    \o ReportNames \o <<"Rob">>
TypeOrder == <<"batter", "pitcher">>

\* The (name, type) keys in the order pandas sorts them.
KeyOrder ==
    [i \in 1..(Len(NameOrder) * Len(TypeOrder)) |->
        <<NameOrder[((i - 1) \div Len(TypeOrder)) + 1],
          TypeOrder[((i - 1) % Len(TypeOrder)) + 1]>>]

\* The players of the FanGraphs responses, in the order the API lists them:
\* the HTML-decorated Name, the plain PlayerName and the position.  Ann bats
\* and pitches; a namesake of hers bats and comes without markup; Bob's
\* PlayerName differs from the text of his anchor.
AnnAnchor == <<"<", "a href=statss.aspx", ">", "Ann", "<", "/a", ">">>
BobAnchor == <<"<", "a href=statss.aspx", ">", "Bob", "<", "/a", ">">>

ApiPlayers ==
    [batters |->
        << [Name |-> AnnAnchor, PlayerName |-> "Ann", POS |-> "OF"],
           [Name |-> <<"Ann">>, PlayerName |-> "Ann", POS |-> "1B"] >>,
     pitchers |->
        << [Name |-> AnnAnchor, PlayerName |-> "Ann", POS |-> "SP"],
           [Name |-> BobAnchor, PlayerName |-> "Rob", POS |-> "RP"] >>]

\* The projections a scraped row may carry.
ScrapeStats ==
    << [PA |-> 100, PTS |-> 200, Team |-> "NYY"],
       [PA |-> 90, PTS |-> 150, Team |-> "BOS"] >>

Kinds == {"batters", "pitchers"}

\* ------------------------------------------------------------------ state

VARIABLES
    ac_data,        \* the ac_data folder: file name |-> rows of the CSV file
    pc,             \* where main() of visualize_ac_change.py stands
    df,             \* main: the combined table
    changes_df,     \* main: the delta table
    anomalies_df,   \* main: the anomaly table
    report,         \* what create_summary_report printed
    cwd,            \* the working directory: file name |-> content
    api             \* what the schedule, ESPN and FanGraphs APIs answer smartStream.py

vars == <<ac_data, pc, df, changes_df, anomalies_df, report, cwd, api>>

Dates == 1..MaxDate

\* The calendar: day number |-> its "%Y-%m-%d" text.
Calendar ==
    <<"2025-06-01", "2025-06-02", "2025-06-03", "2025-06-04", "2025-06-05", "2025-06-06">>

\* datetime.now().strftime("%Y-%m-%d")
StrfTime(day) == Calendar[day]

\* pd.to_datetime(date_str): it raises on a text that is no date.
Parses(date_str) == \E d \in DOMAIN Calendar : Calendar[d] = date_str
ToDatetime(date_str) == CHOOSE d \in DOMAIN Calendar : Calendar[d] = date_str

\* "<date>_fangraphs_<kind>.csv": the '_'-separated tokens of the stem.
FileName(date_str, kind) == <<date_str, "fangraphs", kind>>

RECURSIVE SumLen(_, _)
SumLen(files, names) ==
    IF names = {} THEN 0
    ELSE LET n == CHOOSE m \in names : TRUE
         IN  Len(files[n]) + SumLen(files, names \ {n})

TotalRows(files) == SumLen(files, DOMAIN files)

\* ---------------------------------------------------------------- scraper

\* The "data" list of one API response: each listed player, in API order,
\* with one of the projections.  pick[i] = 0: player i is not listed.
RECURSIVE DataList(_, _, _)
DataList(players, pick, i) ==
    IF i > Len(players) THEN <<>>
    ELSE (IF pick[i] = 0 THEN <<>>
          ELSE << [Name |-> players[i].Name,
                   PlayerName |-> players[i].PlayerName,
                   POS |-> players[i].POS,
                   PA |-> ScrapeStats[pick[i]].PA,
                   PTS |-> ScrapeStats[pick[i]].PTS,
                   Team |-> ScrapeStats[pick[i]].Team] >>)
         \o DataList(players, pick, i + 1)

DataLists(kind) ==
    {DataList(ApiPlayers[kind], pick, 1) :
        pick \in [DOMAIN ApiPlayers[kind] -> 0..Len(ScrapeStats)]} \ {<<>>}

\* A response is a data list, or a body without a "data" list.
NoData == <<[error |-> TRUE]>>
Responses ==
    [kind \in Kinds |->
        [room \in 0..MaxRows |-> {NoData} \cup {d \in DataLists(kind) : Len(d) <= room}]]

\* result[...].insert(0, 'date', date_str); to_csv(filepath, index=False)
WriteCsv(files, name, data, date_str) ==
    [n \in DOMAIN files \cup {name} |->
        IF n = name
        THEN [i \in DOMAIN data |->
                [date |-> date_str, Name |-> data[i].Name,
                 PlayerName |-> data[i].PlayerName, POS |-> data[i].POS,
                 PA |-> data[i].PA, PTS |-> data[i].PTS, Team |-> data[i].Team]]
        ELSE files[n]]

\* FanGraphsAuctionScraper.get_all_data(save_files=True) on day `now`.
GetAllData(files, now, batter_data, pitcher_data) ==
    LET date_str == StrfTime(now)
        afterBat == IF batter_data = NoData THEN files
                    ELSE WriteCsv(files, FileName(date_str, "batters"), batter_data, date_str)
    IN  IF pitcher_data = NoData THEN afterBat
        ELSE WriteCsv(afterBat, FileName(date_str, "pitchers"), pitcher_data, date_str)

LatestDate(files) ==
    IF DOMAIN files = {} THEN 1
    ELSE CHOOSE d \in Dates :
            /\ \E n \in DOMAIN files : ToDatetime(n[1]) = d
            /\ \A n \in DOMAIN files : ToDatetime(n[1]) <= d

\* One run of ac_scrape.py.  The clock never runs backwards; the run starts
\* a fresh process, so the tables of an earlier analysis are gone.
Scrape ==
    /\ pc \in {"idle", "done"}
    /\ \E now \in Dates :
          /\ now >= LatestDate(ac_data)
          /\ LET room == MaxRows - SumLen(ac_data, {n \in DOMAIN ac_data : n[1] # StrfTime(now)})
             IN  \E batter_data \in Responses["batters"][room],
                    pitcher_data \in Responses["pitchers"][room] :
                    /\ ac_data' = GetAllData(ac_data, now, batter_data, pitcher_data)
                    /\ TotalRows(ac_data') <= MaxRows
    /\ pc' = "idle"
    /\ df' = None
    /\ changes_df' = None
    /\ anomalies_df' = None
    /\ report' = None
    /\ UNCHANGED <<cwd, api>>

\* ----------------------------------------------------------------- loader

\* The leading tokens and the kinds of file names, in the order of their
\* text: '#' sorts before the digits, and ISO dates sort as the days do.
TokenOrder == <<"#notes">> \o Calendar
KindOrder == <<"batters", "hitters", "pitchers">>
RankIn(order, token) == CHOOSE i \in DOMAIN order : order[i] = token

\* sorted(ac_data_path.glob('*.csv')): by name, that is by the leading
\* token, then by the kind ("batters" before "pitchers").
FileBefore(a, b) ==
    \/ RankIn(TokenOrder, a[1]) < RankIn(TokenOrder, b[1])
    \/ (a[1] = b[1] /\ Len(a) = 3 /\ Len(b) = 3
           /\ RankIn(KindOrder, a[3]) < RankIn(KindOrder, b[3]))

RECURSIVE SortedFiles(_)
SortedFiles(names) ==
    IF names = {} THEN <<>>
    ELSE LET first == CHOOSE a \in names : \A b \in names \ {a} : FileBefore(a, b)
         IN  <<first>> \o SortedFiles(names \ {first})

\* Variant: 'pitcher' when the name holds "pitchers", 'batter' otherwise.
LoadFilePitchersTest(files, name) ==
    LET date_str == Head(name)
        player_type == IF \E i \in DOMAIN name : name[i] = "pitchers"
                       THEN "pitcher" ELSE "batter"
    IN  [i \in DOMAIN files[name] |->
            [files[name][i] EXCEPT !.date = ToDatetime(date_str)] @@ [player_type |-> player_type]]

\* One file of the loop of load_ac_data: the rows with date and player_type
\* set from the file's name.
LoadFile(files, name) ==
    LET date_str == Head(name)
        player_type == IF \E i \in DOMAIN name : name[i] = "batters"
                       THEN "batter" ELSE "pitcher"
    IN  [i \in DOMAIN files[name] |->
            [files[name][i] EXCEPT !.date = ToDatetime(date_str)] @@ [player_type |-> player_type]]

RECURSIVE Concat(_)
Concat(tables) == IF tables = <<>> THEN <<>> ELSE Head(tables) \o Concat(Tail(tables))

\* The content of a file pd.read_csv raises on (a file of zero bytes).
Unreadable == <<[unreadable |-> TRUE]>>

\* The body of the try block runs through: the file is read and its date
\* is parsed.
Loads(files, name) == files[name] # Unreadable /\ Parses(Head(name))

\* Variant: the loop ends at the first file that raises.
RECURSIVE UpToFailure(_, _)
UpToFailure(files, names) ==
    IF names = <<>> \/ ~Loads(files, Head(names)) THEN <<>>
    ELSE <<Head(names)>> \o UpToFailure(files, Tail(names))

load_ac_data_abort(files) ==
    LET loaded == UpToFailure(files, SortedFiles(DOMAIN files))
        all_data == [i \in DOMAIN loaded |-> LoadFile(files, loaded[i])]
    IN  IF all_data # <<>> THEN Concat(all_data) ELSE None

\* Files are taken in sorted order; one that raises is reported and skipped.
load_ac_data(files) ==
    LET csv_files == SortedFiles(DOMAIN files)
        loaded == SelectSeq(csv_files, LAMBDA name : Loads(files, name))
        all_data == [i \in DOMAIN loaded |-> LoadFile(files, loaded[i])]
    IN  IF all_data # <<>> THEN Concat(all_data) ELSE None

\* Variant: main returns only when there is no table at all.
LoadDataUnlessNone ==
    /\ pc = "idle"
    /\ df' = load_ac_data(ac_data)
    /\ pc' = IF df' = None THEN "done" ELSE "loaded"
    /\ changes_df' = None
    /\ anomalies_df' = None
    /\ report' = None
    /\ UNCHANGED <<ac_data, cwd, api>>

\* main, step 1: df = load_ac_data(); return if df is None or df.empty.
LoadData ==
    /\ pc = "idle"
    /\ df' = load_ac_data(ac_data)
    /\ pc' = IF df' = None \/ df' = <<>> THEN "done" ELSE "loaded"
    /\ changes_df' = None
    /\ anomalies_df' = None
    /\ report' = None
    /\ UNCHANGED <<ac_data, cwd, api>>

\* ------------------------------------------------------ delta computation

\* Series.str.extract(r'>([^<]+)<') on one Name: the leftmost '>' that is
\* followed by a non-empty run without '<' and then a '<'; the run is the
\* match.  NaN (no match) is <<>>.
RunEnd(name, i) ==
    CHOOSE j \in (i + 1)..(Len(name) + 1) :
        /\ (j = Len(name) + 1 \/ name[j] = "<")
        /\ \A k \in (i + 1)..(j - 1) : name[k] # "<"

RECURSIVE Join(_)
Join(tokens) == IF tokens = <<>> THEN "" ELSE Head(tokens) \o Join(Tail(tokens))

\* A slip: only the first '>' is tried, up to the '<' that follows it.
ExtractAtFirst(name) ==
    LET gts == {i \in DOMAIN name : name[i] = ">"}
    IN  IF gts = {} THEN <<>>
        ELSE LET i == CHOOSE m \in gts : \A n \in gts : m <= n
             IN  IF RunEnd(name, i) > i + 1 /\ RunEnd(name, i) <= Len(name)
                 THEN <<Join(SubSeq(name, i + 1, RunEnd(name, i) - 1))>>
                 ELSE <<>>

ExtractName(name) ==
    LET starts == {i \in DOMAIN name :
                      /\ name[i] = ">"
                      /\ RunEnd(name, i) > i + 1
                      /\ RunEnd(name, i) <= Len(name)}
    IN  IF starts = {} THEN <<>>
        ELSE LET i == CHOOSE m \in starts : \A n \in starts : m <= n
             IN  <<Join(SubSeq(name, i + 1, RunEnd(name, i) - 1))>>

\* df['clean_name'] = extract(...).fillna(df['PlayerName'])
CleanName(row) ==
    LET m == ExtractName(row.Name)
    IN  IF m = <<>> THEN row.PlayerName ELSE m[1]

clean_player_names(table) ==
    [i \in DOMAIN table |-> table[i] @@ [clean_name |-> CleanName(table[i])]]

\* (change / base * 100) if base > 0 else 0
PctChange(change, base) == IF base > 0 THEN Rat(change * 100, base) ELSE Zero

\* A slip: the guard tests the numerator, and a zero PA change divides.
PtsPerPaChangeWrongGuard(pts_change, pa_change) ==
    IF pts_change # 0 THEN Rat(pts_change, pa_change) ELSE Zero

\* pts_change / pa_change if pa_change != 0 else 0
PtsPerPaChange(pts_change, pa_change) ==
    IF pa_change # 0 THEN Rat(pts_change, pa_change) ELSE Zero

\* A slip: the change is not divided by the days.
PerDayUndivided(change, days_diff) == IF days_diff > 0 THEN RatOfInt(change) ELSE Zero

\* change / days_diff if days_diff > 0 else 0
PerDay(change, days_diff) == IF days_diff > 0 THEN Rat(change, days_diff) ELSE Zero

\* The change_record built from the two anchor rows of a group.
ChangeRecord(name, ptype, first_row, last_row) ==
    LET pa_change == last_row.PA - first_row.PA
        pts_change == last_row.PTS - first_row.PTS
        days_diff == last_row.date - first_row.date
    IN  [player_name |-> name,
         player_type |-> ptype,
         first_date |-> first_row.date,
         last_date |-> last_row.date,
         days_tracked |-> days_diff,
         first_PA |-> first_row.PA,
         last_PA |-> last_row.PA,
         first_PTS |-> first_row.PTS,
         last_PTS |-> last_row.PTS,
         pa_change |-> pa_change,
         pts_change |-> pts_change,
         pa_pct_change |-> PctChange(pa_change, first_row.PA),
         pts_pct_change |-> PctChange(pts_change, first_row.PTS),
         pts_per_pa_change |-> PtsPerPaChange(pts_change, pa_change),
         pa_change_per_day |-> PerDay(pa_change, days_diff),
         pts_change_per_day |-> PerDay(pts_change, days_diff),
         team |-> last_row.Team,
         position |-> last_row.POS]

KeyOf(row) == <<row.clean_name, row.player_type>>

\* The rows of one group of df.groupby(['clean_name', 'player_type']).
GroupOf(table, key) == SelectSeq(table, LAMBDA r : KeyOf(r) = key)

\* The group keys in the order groupby yields them (sorted).
GroupKeys(table) ==
    SelectSeq(KeyOrder, LAMBDA k : \E i \in DOMAIN table : KeyOf(table[i]) = k)

\* group.sort_values('date').iloc[0]: a row of the earliest date.  The
\* default sort is not stable, so which of several rows of that date comes
\* first is not determined.
FirstRows(group) ==
    {group[i] : i \in {j \in DOMAIN group : \A k \in DOMAIN group : group[j].date <= group[k].date}}

\* A slip: iloc[-1] of a group that is not sorted by date may be any row
\* after the earliest date.
LastRowsUnsorted(group) ==
    LET later == {j \in DOMAIN group : \E k \in DOMAIN group : group[k].date < group[j].date}
    IN  {group[i] : i \in IF later = {} THEN DOMAIN group ELSE later}

\* group.sort_values('date').iloc[-1]: a row of the latest date.
LastRows(group) ==
    {group[i] : i \in {j \in DOMAIN group : \A k \in DOMAIN group : group[j].date >= group[k].date}}

\* A slip: the same-date test is missing.
SkippedSingleOnly(group, first_row, last_row) == Len(group) < 2

\* A slip: `len(group) <= 2` for `len(group) < 2`.
SkippedUpToTwo(group, first_row, last_row) ==
    \/ Len(group) <= 2
    \/ first_row.date = last_row.date

\* The two `continue`s of the loop: a group of one row, anchors of one date.
Skipped(group, first_row, last_row) ==
    \/ Len(group) < 2
    \/ first_row.date = last_row.date

\* The change records one group can yield (none when it is skipped).
GroupChanges(table, key) ==
    LET group == GroupOf(table, key)
    IN  {ChangeRecord(key[1], key[2], f, l) :
            <<f, l>> \in {p \in FirstRows(group) \X LastRows(group) :
                             ~Skipped(group, p[1], p[2])}}

\* The delta tables the loop over the groups `keys` can build.
RECURSIVE ChangesOver(_, _)
ChangesOver(table, keys) ==
    IF keys = <<>> THEN {<<>>}
    ELSE LET recs == GroupChanges(table, Head(keys))
             rest == ChangesOver(table, Tail(keys))
         IN  IF recs = {} THEN rest
             ELSE {<<r>> \o t : r \in recs, t \in rest}

\* calculate_changes(df): every delta table it can return.
calculate_changes(table) ==
    LET cleaned == clean_player_names(table)
    IN  ChangesOver(cleaned, GroupKeys(cleaned))

\* main, step 2: changes_df = calculate_changes(df); return if it is empty.
\* clean_player_names adds the clean_name column to main's df in place.
CalculateChanges ==
    /\ pc = "loaded"
    /\ changes_df' \in calculate_changes(df)
    /\ df' = clean_player_names(df)
    /\ pc' = IF changes_df' = <<>> THEN "done" ELSE "calculated"
    /\ UNCHANGED <<ac_data, anomalies_df, report, cwd, api>>

\* ---------------------------------------------------- anomaly classifier

\* The thresholds of identify_anomalies.
MajorPaPct == 15
MajorPaAbs == 30
PtsOnlyPtsPct == 10
PtsOnlyPaPct == 8
DropFactor == <<3, 2>>

\* A slip: `>` for `>=`.
MajorPaChangeStrict(r) ==
    \/ RatLess(RatOfInt(MajorPaPct), RatAbs(r.pa_pct_change))
    \/ Abs(r.pa_change) > MajorPaAbs

\* (abs(pa_pct_change) >= 15) | (abs(pa_change) >= 30)
MajorPaChange(r) ==
    \/ RatLeq(RatOfInt(MajorPaPct), RatAbs(r.pa_pct_change))
    \/ Abs(r.pa_change) >= MajorPaAbs

\* A slip: `<=` for `<` and `>` for `>=`.
PtsOnlyChangeOffByOne(r) ==
    /\ RatLess(RatOfInt(PtsOnlyPtsPct), RatAbs(r.pts_pct_change))
    /\ RatLeq(RatAbs(r.pa_pct_change), RatOfInt(PtsOnlyPaPct))

\* A slip: the abs() of the PTS change is missing.
PtsOnlyChangeSigned(r) ==
    /\ RatLeq(RatOfInt(PtsOnlyPtsPct), r.pts_pct_change)
    /\ RatLess(RatAbs(r.pa_pct_change), RatOfInt(PtsOnlyPaPct))

\* (abs(pts_pct_change) >= 10) & (abs(pa_pct_change) < 8)
PtsOnlyChange(r) ==
    /\ RatLeq(RatOfInt(PtsOnlyPtsPct), RatAbs(r.pts_pct_change))
    /\ RatLess(RatAbs(r.pa_pct_change), RatOfInt(PtsOnlyPaPct))

\* A slip: the cohort takes every record whose PTS fell.
DecliningPts(r) == r.pts_change < 0

\* (pa_change < 0) & (pts_change < 0)
Declining(r) == r.pa_change < 0 /\ r.pts_change < 0

\* The k-th smallest of a non-empty sequence of numbers.
KthSmallest(values, k) ==
    CHOOSE v \in Range(values) :
        /\ Cardinality({i \in DOMAIN values : RatLess(values[i], v)}) < k
        /\ k <= Cardinality({i \in DOMAIN values : RatLeq(values[i], v)})

\* A slip: the lowest value for the middle one.
MedianLowest(values) == IF Len(values) = 0 THEN NaN ELSE KthSmallest(values, 1)

\* Series.median(): the middle value, the mean of the two middle values of
\* an even count, NaN of an empty series.
Median(values) ==
    LET n == Len(values)
    IN  IF n = 0 THEN NaN
        ELSE IF n % 2 = 1 THEN KthSmallest(values, (n + 1) \div 2)
        ELSE RatMul(RatAdd(KthSmallest(values, n \div 2),
                           KthSmallest(values, (n \div 2) + 1)), <<1, 2>>)

\* declining_cases[declining_cases['player_type'] == ptype]
\*     ['pts_per_pa_change'].median()
Baseline(declining_cases, ptype) ==
    LET of_type == SelectSeq(declining_cases, LAMBDA r : r.player_type = ptype)
    IN  Median([i \in DOMAIN of_type |-> of_type[i].pts_per_pa_change])

\* A slip: one baseline over the declining players of both types.
BaselineOfAnyType(declining_cases, row) ==
    Median([i \in DOMAIN declining_cases |-> declining_cases[i].pts_per_pa_change])

\* baseline = batter_baseline if row['player_type'] == 'batter'
\*            else pitcher_baseline
BaselineOf(declining_cases, row) ==
    IF row.player_type = "batter" THEN Baseline(declining_cases, "batter")
    ELSE Baseline(declining_cases, "pitcher")

\* A slip: the factor 1.5 is missing.
UnusualDropNoFactor(row, baseline) ==
    /\ ~IsNaN(baseline)
    /\ RatLess(RatAbs(RatMul(RatOfInt(row.pa_change), baseline)),
               RatOfInt(Abs(row.pts_change)))

\* abs(row['pts_change']) > abs(expected_pts_change * 1.5); a comparison
\* with NaN is False.
UnusualDrop(row, baseline) ==
    LET expected_pts_change == RatMul(RatOfInt(row.pa_change), baseline)
    IN  /\ ~IsNaN(baseline)
        /\ RatLess(RatAbs(RatMul(expected_pts_change, DropFactor)),
                   RatOfInt(Abs(row.pts_change)))

\* subset['anomaly_type'] = label
Labelled(rows, label) == [i \in DOMAIN rows |-> rows[i] @@ [anomaly_type |-> label]]

\* Variant: a record is reported once, under the first rule it matches.
identify_anomalies_once(changes) ==
    LET declining_cases == SelectSeq(changes, Declining)
        pts_only == SelectSeq(changes, LAMBDA r : PtsOnlyChange(r) /\ ~MajorPaChange(r))
        unusual ==
            SelectSeq(declining_cases,
                      LAMBDA row : /\ UnusualDrop(row, BaselineOf(declining_cases, row))
                                   /\ ~MajorPaChange(row) /\ ~PtsOnlyChange(row))
    IN  Labelled(SelectSeq(changes, MajorPaChange), "Major PA Change")
        \o Labelled(pts_only, "PTS Change Without PA Change")
        \o Labelled(unusual, "Unusual PTS Drop Rate")

\* identify_anomalies(changes_df): the three matched subsets, concatenated.
identify_anomalies(changes) ==
    LET major_pa_changes == Labelled(SelectSeq(changes, MajorPaChange), "Major PA Change")
        pts_only_changes ==
            Labelled(SelectSeq(changes, PtsOnlyChange), "PTS Change Without PA Change")
        declining_cases == SelectSeq(changes, Declining)
        unusual_pts_drops ==
            SelectSeq(declining_cases,
                      LAMBDA row : UnusualDrop(row, BaselineOf(declining_cases, row)))
        unusual_drops_df == Labelled(unusual_pts_drops, "Unusual PTS Drop Rate")
    IN  major_pa_changes \o pts_only_changes \o unusual_drops_df

\* Variant: the labels are assigned on the matched rows of the input, not
\* on copies of them.
IdentifyAnomaliesInPlace ==
    /\ pc = "calculated"
    /\ anomalies_df' = identify_anomalies(changes_df)
    /\ changes_df' =
          [i \in DOMAIN changes_df |->
              IF MajorPaChange(changes_df[i])
              THEN changes_df[i] @@ [anomaly_type |-> "Major PA Change"]
              ELSE IF PtsOnlyChange(changes_df[i])
              THEN changes_df[i] @@ [anomaly_type |-> "PTS Change Without PA Change"]
              ELSE changes_df[i]]
    /\ pc' = "classified"
    /\ UNCHANGED <<ac_data, df, report, cwd, api>>

\* main, step 3: anomalies_df = identify_anomalies(changes_df).  The
\* function labels copies of the matched rows (.copy(), and a new frame for
\* the third subset), so its argument stays as it is.
IdentifyAnomalies ==
    /\ pc = "calculated"
    /\ anomalies_df' = identify_anomalies(changes_df)
    /\ pc' = "classified"
    /\ UNCHANGED <<ac_data, df, changes_df, report, cwd, api>>

\* ------------------------------------------------------- report and files

\* group.head(15)
TopN == 15

\* The anomaly labels in the order of their text, which is the order of
\* groupby('anomaly_type'), and the words of each.
LabelOrder ==
    <<"Major PA Change", "PTS Change Without PA Change", "Unusual PTS Drop Rate">>

Words(anomaly_type) ==
    CASE anomaly_type = "Major PA Change" -> <<"Major", "PA", "Change">>
      [] anomaly_type = "PTS Change Without PA Change" ->
            <<"PTS", "Change", "Without", "PA", "Change">>
      [] anomaly_type = "Unusual PTS Drop Rate" -> <<"Unusual", "PTS", "Drop", "Rate">>

\* 'PA' in anomaly_type: the text holds "PA" (no other word of a label does).
ContainsPA(anomaly_type) ==
    \E i \in DOMAIN Words(anomaly_type) : Words(anomaly_type)[i] = "PA"

\* The column the group is sorted by, in absolute value.
Magnitude(anomaly_type, row) ==
    IF ContainsPA(anomaly_type) THEN RatAbs(row.pa_pct_change)
    ELSE RatAbs(row.pts_pct_change)

\* group.reindex(<column>.abs().sort_values(ascending=False).index): every
\* descending order of the rows `rest` of the group; the sort is not stable,
\* so rows of equal magnitude come in any order.
RECURSIVE Descending(_, _, _)
Descending(group, rest, anomaly_type) ==
    IF rest = {} THEN {<<>>}
    ELSE LET top == {i \in rest :
                        \A j \in rest : RatLeq(Magnitude(anomaly_type, group[j]),
                                               Magnitude(anomaly_type, group[i]))}
         IN  UNION {{<<group[i]>> \o t : t \in Descending(group, rest \ {i}, anomaly_type)} :
                        i \in top}

\* table.head(n)
HeadRows(table, n) == SubSeq(table, 1, IF Len(table) < n THEN Len(table) ELSE n)

\* The lines printed for one anomaly record (the numbers as they are, not
\* as they are rounded for print).
ReportLine(row) ==
    [player_name |-> row.player_name, team |-> row.team,
     first_date |-> StrfTime(row.first_date), last_date |-> StrfTime(row.last_date),
     first_PA |-> row.first_PA, last_PA |-> row.last_PA,
     pa_change |-> row.pa_change, pa_pct_change |-> row.pa_pct_change,
     first_PTS |-> row.first_PTS, last_PTS |-> row.last_PTS,
     pts_change |-> row.pts_change, pts_pct_change |-> row.pts_pct_change,
     days_tracked |-> row.days_tracked]

\* The loop over anomalies_df.groupby('anomaly_type') from the k-th label
\* on: one section for each label that has records, and every way the
\* sections can come out.
RECURSIVE Sections(_, _)
Sections(anomalies, k) ==
    IF k > Len(LabelOrder) THEN {<<>>}
    ELSE LET anomaly_type == LabelOrder[k]
             group == SelectSeq(anomalies, LAMBDA r : r.anomaly_type = anomaly_type)
             rest == Sections(anomalies, k + 1)
         IN  IF group = <<>> THEN rest
             ELSE {<<[anomaly_type |-> anomaly_type,
                      lines |-> [i \in DOMAIN HeadRows(sorted, TopN) |->
                                    ReportLine(sorted[i])]]>> \o t :
                        sorted \in Descending(group, DOMAIN group, anomaly_type),
                        t \in rest}

MinOf(values) == CHOOSE v \in Range(values) : \A w \in Range(values) : v <= w
MaxOf(values) == CHOOSE v \in Range(values) : \A w \in Range(values) : w <= v

\* create_summary_report(anomalies_df, changes_df): every report it can
\* print, as the sequence of its blocks: the period and the number of
\* players, then the notice that there is no anomaly or the sections.
create_summary_report(anomalies, changes) ==
    LET header ==
            IF changes # <<>>
            THEN << [min_date |-> StrfTime(MinOf([i \in DOMAIN changes |-> changes[i].first_date])),
                     max_date |-> StrfTime(MaxOf([i \in DOMAIN changes |-> changes[i].last_date])),
                     total_players |-> Len(changes)] >>
            ELSE <<>>
    IN  IF anomalies = <<>>
        THEN {header \o <<[no_anomalies |-> TRUE]>>}
        ELSE {header \o s : s \in Sections(anomalies, 1)}

\* main, step 4: create_summary_report(anomalies_df, changes_df).
CreateSummaryReport ==
    /\ pc = "classified"
    /\ report' \in create_summary_report(anomalies_df, changes_df)
    /\ pc' = "reported"
    /\ UNCHANGED <<ac_data, df, changes_df, anomalies_df, cwd, api>>

\* <file>.to_csv(name) and plt.savefig(name): the file is created or replaced.
WriteFile(files, name, content) ==
    [n \in DOMAIN files \cup {name} |-> IF n = name THEN content ELSE files[n]]

\* What the figure is drawn from: the PA and PTS change of every delta
\* record with its player type, and the number of anomalies of each type.
Figure(changes, anomalies) ==
    [points |-> [i \in DOMAIN changes |->
                    <<changes[i].pa_change, changes[i].pts_change, changes[i].player_type>>],
     anomaly_counts |->
        [k \in DOMAIN LabelOrder |->
            Len(SelectSeq(anomalies, LAMBDA r : r.anomaly_type = LabelOrder[k]))]]

\* main, step 5: create_visualizations(changes_df, anomalies_df) saves the
\* figure.
CreateVisualizations ==
    /\ pc = "reported"
    /\ cwd' = WriteFile(cwd, "ac_projection_changes_analysis.png",
                        Figure(changes_df, anomalies_df))
    /\ pc' = "visualized"
    /\ UNCHANGED <<ac_data, df, changes_df, anomalies_df, report, api>>

\* <table>.to_csv(name, index=False): the dates are written as text.
ToCsv(table) ==
    [i \in DOMAIN table |->
        [table[i] EXCEPT !.first_date = StrfTime(@), !.last_date = StrfTime(@)]]

RECURSIVE SumOf(_)
SumOf(values) == IF values = <<>> THEN 0 ELSE Head(values) + SumOf(Tail(values))

\* Series.mean(), .max() and .min(): NaN over no value.
MeanOf(values) == IF values = <<>> THEN NaN ELSE Rat(SumOf(values), Len(values))
MaxValue(values) == IF values = <<>> THEN NaN ELSE RatOfInt(MaxOf(values))
MinValue(values) == IF values = <<>> THEN NaN ELSE RatOfInt(MinOf(values))

Column(table, name) == [i \in DOMAIN table |-> table[i][name]]

\* The summary_stats of save_detailed_report with the statistics taken over
\* `table`; the Value column holds floats.
SummaryOver(anomalies, table) ==
    << [Metric |-> "Total Players", Value |-> RatOfInt(Len(table))],
       [Metric |-> "Total Anomalies",
        Value |-> RatOfInt(IF anomalies # <<>> THEN Len(anomalies) ELSE 0)],
       [Metric |-> "Avg PA Change", Value |-> MeanOf(Column(table, "pa_change"))],
       [Metric |-> "Avg PTS Change", Value |-> MeanOf(Column(table, "pts_change"))],
       [Metric |-> "Max PA Increase", Value |-> MaxValue(Column(table, "pa_change"))],
       [Metric |-> "Max PA Decrease", Value |-> MinValue(Column(table, "pa_change"))],
       [Metric |-> "Max PTS Increase", Value |-> MaxValue(Column(table, "pts_change"))],
       [Metric |-> "Max PTS Decrease", Value |-> MinValue(Column(table, "pts_change"))],
       [Metric |-> "Avg Days Tracked", Value |-> MeanOf(Column(table, "days_tracked"))],
       [Metric |-> "Players with PA Increases",
        Value |-> RatOfInt(Len(SelectSeq(table, LAMBDA r : r.pa_change > 0)))],
       [Metric |-> "Players with PTS Increases",
        Value |-> RatOfInt(Len(SelectSeq(table, LAMBDA r : r.pts_change > 0)))] >>

\* Variant: the statistics taken over the anomaly records only.
SummaryStatsOfAnomalies(anomalies, changes) == SummaryOver(anomalies, anomalies)

SummaryStats(anomalies, changes) == SummaryOver(anomalies, changes)

\* save_detailed_report(anomalies_df, changes_df): the anomalies file is
\* written only when there are anomalies.
save_detailed_report(files, anomalies, changes) ==
    LET afterAnomalies ==
            IF anomalies # <<>>
            THEN WriteFile(files, "projection_anomalies.csv", ToCsv(anomalies))
            ELSE files
        afterChanges == WriteFile(afterAnomalies, "all_projection_changes.csv", ToCsv(changes))
    IN  WriteFile(afterChanges, "projection_summary_stats.csv",
                  SummaryStats(anomalies, changes))

\* main, step 6: save_detailed_report(anomalies_df, changes_df), and main
\* returns.
SaveDetailedReport ==
    /\ pc = "visualized"
    /\ cwd' = save_detailed_report(cwd, anomalies_df, changes_df)
    /\ pc' = "done"
    /\ UNCHANGED <<ac_data, df, changes_df, anomalies_df, report, api>>

\* ------------------------------------------------------------ smartStream

\* A name is the sequence of its characters; str.lower() maps each one.
LowerChar(c) ==
    CASE c = "A" -> "a" [] c = "B" -> "b" [] c = "D" -> "d" [] c = "T" -> "t"
      [] OTHER -> c
Lower(name) == [i \in DOMAIN name |-> LowerChar(name[i])]

\* `a in b` of two strings.
IsIn(a, b) == \E k \in 0..(Len(b) - Len(a)) : SubSeq(b, k + 1, k + Len(a)) = a

\* The name find_matchups gives a game side without a probable pitcher.
TBD == <<"T", "B", "D">>

\* create_team_name_mapping(): the teams of the model that it lists.
team_name_mapping == ("Boston Red Sox" :> "BOS") @@ ("New York Yankees" :> "NYY")

\* dict.get(key, default)
Get(dict, key, default) == IF key \in DOMAIN dict THEN dict[key] ELSE default

\* if wrc_plus < 100 or k_percent > 22
WrcLimit == 100
KLimit == 22

\* espn_pitchers = {name.lower(): team for name, team in pitchers}: its keys.
EspnPitchers(pitchers) == {Lower(pitchers[i][1]) : i \in DOMAIN pitchers}

\* matching_espn_pitchers
MatchingEspnPitchers(espn_pitchers, pitcher_name) ==
    {name \in espn_pitchers :
        IsIn(Lower(pitcher_name), name) \/ IsIn(name, Lower(pitcher_name))}

\* available_pitchers of one game.
AvailablePitchers(game, espn_pitchers) ==
    SelectSeq(<<game.away_pitcher, game.home_pitcher>>,
              LAMBDA pitcher_name :
                  /\ pitcher_name # TBD
                  /\ MatchingEspnPitchers(espn_pitchers, pitcher_name) # {})

\* if wrc_plus < 100 or k_percent > 22
Qualifies(wrc_plus, k_percent) == wrc_plus < WrcLimit \/ k_percent > KLimit

\* The body of `for pitcher_name in available_pitchers`: the tuple that is
\* appended to potential_streamers when the opponent qualifies.  The side of
\* the pitcher is found by comparing the name with away_pitcher.
PitcherInfo(game, pitcher_name, responses) ==
    LET pitcher_team == IF pitcher_name = game.away_pitcher THEN game.away_team
                        ELSE game.home_team
        handedness == Get(responses.pitcher_handedness, pitcher_name, "Unknown")
        opponent == IF pitcher_name = game.away_pitcher THEN game.home_team
                    ELSE game.away_team
        split_stats == IF handedness = "R" THEN responses.rhp_stats ELSE responses.lhp_stats
        opponent_abbr == Get(team_name_mapping, opponent, opponent)
        opponent_stats == Get(split_stats, opponent_abbr, <<>>)
    IN  [pitcher_name |-> pitcher_name, pitcher_team |-> pitcher_team,
         handedness |-> handedness, opponent |-> opponent,
         wrc_plus |-> Get(opponent_stats, "wRC+", 0),
         k_percent |-> Get(opponent_stats, "K%", 0)]

PotentialStreamers(game, responses) ==
    LET available_pitchers == AvailablePitchers(game, EspnPitchers(responses.espn))
        infos == [i \in DOMAIN available_pitchers |->
                     PitcherInfo(game, available_pitchers[i], responses)]
    IN  SelectSeq(infos, LAMBDA info : Qualifies(info.wrc_plus, info.k_percent))

\* f"{x:.2f}" of a whole number: the number and two zero decimals.
Fixed2(x) == <<x, 0, 0>>

\* The three lines written for one streamer.
RECURSIVE StreamerLines(_)
StreamerLines(potential_streamers) ==
    IF potential_streamers = <<>> THEN <<>>
    ELSE LET info == Head(potential_streamers)
         IN  << [line |-> "option", pitcher_name |-> info.pitcher_name,
                 pitcher_team |-> info.pitcher_team, handedness |-> info.handedness],
                [line |-> "opponent", opponent |-> info.opponent],
                [line |-> "stats", handedness |-> info.handedness,
                 wrc_plus |-> Fixed2(info.wrc_plus), k_percent |-> Fixed2(info.k_percent)] >>
             \o StreamerLines(Tail(potential_streamers))

\* f"{day}:\n  {away_team} ({away_pitcher}) @ {home_team} ({home_pitcher})\n"
GameHeader(day, game) ==
    << [line |-> "day", day |-> day],
       [line |-> "game", away_team |-> game.away_team, away_pitcher |-> game.away_pitcher,
        home_team |-> game.home_team, home_pitcher |-> game.home_pitcher] >>

\* The loop over the matchups of one day, from the game `matchups` starts
\* with: game_printed is set at the first game with a streamer and stays
\* set for the day (streamer_found is set with it); the day ends with an
\* empty line when it has a streamer.
RECURSIVE DayLines(_, _, _, _)
DayLines(day, matchups, game_printed, responses) ==
    IF matchups = <<>> THEN (IF game_printed THEN <<[line |-> "blank"]>> ELSE <<>>)
    ELSE LET potential_streamers == PotentialStreamers(Head(matchups), responses)
         IN  IF potential_streamers = <<>>
             THEN DayLines(day, Tail(matchups), game_printed, responses)
             ELSE (IF game_printed THEN <<>> ELSE GameHeader(day, Head(matchups)))
                  \o StreamerLines(potential_streamers)
                  \o DayLines(day, Tail(matchups), TRUE, responses)

\* The lines of smartstream_results.txt.
RECURSIVE WeekLines(_, _)
WeekLines(matchups_by_day, responses) ==
    IF matchups_by_day = <<>> THEN <<>>
    ELSE DayLines(Head(matchups_by_day).day, Head(matchups_by_day).matchups, FALSE, responses)
         \o WeekLines(Tail(matchups_by_day), responses)

Results(responses) ==
    << [line |-> "title", start_date |-> responses.start_date], [line |-> "blank"] >>
    \o WeekLines(responses.matchups_by_day, responses)

\* main() of smartStream.py: the results file is created or replaced.
SmartStream ==
    /\ cwd' = WriteFile(cwd, "smartstream_results.txt", Results(api))
    /\ UNCHANGED <<ac_data, pc, df, changes_df, anomalies_df, report, api>>

\* --------------------------------------------------------- specifications

Init ==
    /\ ac_data = <<>>
    /\ pc = "idle"
    /\ df = None
    /\ changes_df = None
    /\ anomalies_df = None
    /\ report = None
    /\ cwd = <<>>
    /\ api = None

\* The steps of main() of visualize_ac_change.py up to the anomaly table.
Analyse == LoadData \/ CalculateChanges \/ IdentifyAnomalies

\* main() of visualize_ac_change.py.
Main == Analyse \/ CreateSummaryReport \/ CreateVisualizations \/ SaveDetailedReport

\* Spec follows the snapshot history up to the first analysis run that
\* writes its files: the scraper runs as long as none is written.
FirstRun == cwd = <<>>

Next == (FirstRun /\ Scrape) \/ Main

Spec == Init /\ [][Next]_vars

\* The analysis over a history of two snapshot days whose projections range
\* over the thresholds of the classifier: a probe player (Gus) with any two
\* of ProbeStats, and up to MaxCohort further players whose projection falls
\* from CohortFirst to one of CohortOptions.
ProbeStats ==
    << [PA |-> 100, PTS |-> 200, Team |-> "NYY"],
       [PA |-> 70, PTS |-> 190, Team |-> "NYY"],
       [PA |-> 98, PTS |-> 170, Team |-> "NYY"],
       [PA |-> 85, PTS |-> 180, Team |-> "BOS"],
       [PA |-> 92, PTS |-> 180, Team |-> "BOS"],
       [PA |-> 93, PTS |-> 180, Team |-> "BOS"],
       [PA |-> 300, PTS |-> 200, Team |-> "NYY"],
       [PA |-> 270, PTS |-> 200, Team |-> "NYY"],
       [PA |-> 271, PTS |-> 220, Team |-> "NYY"],
       [PA |-> 0, PTS |-> -10, Team |-> "BOS"],
       [PA |-> 100, PTS |-> 0, Team |-> "BOS"],
       [PA |-> 90, PTS |-> 150, Team |-> "NYY"],
       [PA |-> 90, PTS |-> 175, Team |-> "NYY"],
       [PA |-> 90, PTS |-> 180, Team |-> "NYY"],
       [PA |-> 115, PTS |-> 220, Team |-> "NYY"] >>

CohortNames == <<"Cal", "Dee", "Eli", "Fay">>

CohortFirst == [PA |-> 100, PTS |-> 200, Team |-> "NYY"]

CohortOptions ==
    << [kind |-> "pitchers", last |-> [PA |-> 90, PTS |-> 175, Team |-> "NYY"]],
       [kind |-> "pitchers", last |-> [PA |-> 90, PTS |-> 180, Team |-> "NYY"]],
       [kind |-> "pitchers", last |-> [PA |-> 90, PTS |-> 185, Team |-> "NYY"]],
       [kind |-> "pitchers", last |-> [PA |-> 90, PTS |-> 190, Team |-> "NYY"]],
       [kind |-> "batters", last |-> [PA |-> 90, PTS |-> 180, Team |-> "NYY"]],
       [kind |-> "batters", last |-> [PA |-> 90, PTS |-> 150, Team |-> "NYY"]] >>

\* pick[i] = 0: cohort player i is absent.  The players are interchangeable,
\* so the picks are taken in ascending order.
CohortPicks ==
    {pick \in [1..MaxCohort -> 0..Len(CohortOptions)] :
        \A i, j \in 1..MaxCohort : i < j => pick[i] <= pick[j]}

CsvRow(name, stat, date_str) ==
    [date |-> date_str,
     Name |-> <<"<", "a href=statss.aspx", ">", name, "<", "/a", ">">>,
     PlayerName |-> name, POS |-> "UT",
     PA |-> stat.PA, PTS |-> stat.PTS, Team |-> stat.Team]

RECURSIVE CohortRows(_, _, _, _)
CohortRows(pick, kind, day, i) ==
    IF i > MaxCohort THEN <<>>
    ELSE (IF pick[i] # 0 /\ CohortOptions[pick[i]].kind = kind
          THEN <<CsvRow(CohortNames[i],
                        IF day = 1 THEN CohortFirst ELSE CohortOptions[pick[i]].last,
                        StrfTime(day))>>
          ELSE <<>>)
         \o CohortRows(pick, kind, day, i + 1)

StatsRows(probe_kind, first, last, pick, kind, day) ==
    (IF kind = probe_kind
     THEN <<CsvRow("Gus", ProbeStats[IF day = 1 THEN first ELSE last], StrfTime(day))>>
     ELSE <<>>)
    \o CohortRows(pick, kind, day, 1)

StatsFiles(probe_kind, first, last, pick) ==
    LET names == {FileName(StrfTime(day), kind) : day \in 1..2, kind \in Kinds}
        rows(n) == StatsRows(probe_kind, first, last, pick, n[3], ToDatetime(n[1]))
    IN  [n \in {m \in names : rows(m) # <<>>} |-> rows(n)]

InitStats ==
    /\ \E probe_kind \in Kinds, first \in DOMAIN ProbeStats, last \in DOMAIN ProbeStats,
          pick \in CohortPicks :
            ac_data = StatsFiles(probe_kind, first, last, pick)
    /\ pc = "idle"
    /\ df = None
    /\ changes_df = None
    /\ anomalies_df = None
    /\ report = None
    /\ cwd = <<>>
    /\ api = None

SpecStats == InitStats /\ [][Analyse]_vars

\* The analysis over folders that hold, beside snapshots of two days, files
\* the loader cannot load and files it loads to no row: each file of
\* LoadSlots is absent or has one of its contents.  "#notes" is a stray
\* file whose name starts with no date, "hitters" a snapshot saved under
\* another name, <<>> a file of a header line only.
LoadSlots ==
    << [name |-> <<"#notes">>,
        contents |-> << <<CsvRow("Ann", ScrapeStats[2], StrfTime(2))>> >>],
       [name |-> FileName(StrfTime(1), "batters"),
        contents |-> << <<>>, <<CsvRow("Ann", ScrapeStats[1], StrfTime(1))>>, Unreadable >>],
       [name |-> FileName(StrfTime(1), "pitchers"),
        contents |-> << <<CsvRow("Bob", ScrapeStats[1], StrfTime(1))>>, Unreadable >>],
       [name |-> FileName(StrfTime(2), "batters"),
        contents |-> << <<>>, <<CsvRow("Ann", ScrapeStats[2], StrfTime(2))>>,
                        <<CsvRow("Ann", ScrapeStats[1], StrfTime(2)),
                          CsvRow("Cal", ScrapeStats[1], StrfTime(2))>> >>],
       [name |-> FileName(StrfTime(2), "hitters"),
        contents |-> << <<CsvRow("Bob", ScrapeStats[2], StrfTime(2))>> >>] >>

\* pick[i] = 0: the file of slot i is absent.
LoadFolder(pick) ==
    [n \in {LoadSlots[i].name : i \in {j \in DOMAIN LoadSlots : pick[j] # 0}} |->
        LET i == CHOOSE j \in DOMAIN LoadSlots : LoadSlots[j].name = n
        IN  LoadSlots[i].contents[pick[i]]]

InitLoad ==
    /\ \E pick \in [DOMAIN LoadSlots -> 0..3] :
          /\ \A i \in DOMAIN LoadSlots : pick[i] <= Len(LoadSlots[i].contents)
          /\ ac_data = LoadFolder(pick)
    /\ pc = "idle"
    /\ df = None
    /\ changes_df = None
    /\ anomalies_df = None
    /\ report = None
    /\ cwd = <<>>
    /\ api = None

SpecLoad == InitLoad /\ [][Main]_vars

\* The analysis over a history of two snapshot days with up to MaxPlayers
\* players of one kind, so that a report section can hold more records than
\* it shows.  All start from ReportFirst; player i ends by the profile of
\* the run:
\*   "pts_only"  PA down by i/3 %, PTS down by 28 - i %: the larger the PA
\*               change, the smaller the PTS change;
\*   "major"     PA up by 15 + i % (players 1 and 2 both by 17 %);
\*   "quiet"     PA up by i/3 %, PTS down by i/10 %: no anomaly;
\*   "mixed"     the three in turn.
Profiles == {"pts_only", "major", "quiet", "mixed"}

ReportFirst == [PA |-> 300, PTS |-> 1000, Team |-> "NYY"]

ReportLast(profile, i) ==
    LET p == IF profile # "mixed" THEN profile
             ELSE IF i % 3 = 0 THEN "pts_only"
             ELSE IF i % 3 = 1 THEN "major"
             ELSE "quiet"
    IN  CASE p = "pts_only" ->
                [PA |-> 300 - i, PTS |-> 1000 - 10 * (28 - i), Team |-> "NYY"]
          [] p = "major" ->
                [PA |-> 300 + 3 * (15 + (IF i < 2 THEN 2 ELSE i)),
                 PTS |-> 1000 + 5 * (20 - i), Team |-> "NYY"]
          [] p = "quiet" -> [PA |-> 300 + i, PTS |-> 1000 - i, Team |-> "NYY"]

ReportFiles(profile, kind, n) ==
    [name \in {FileName(StrfTime(day), kind) : day \in 1..2} |->
        [i \in 1..n |->
            CsvRow(ReportNames[i],
                   IF name[1] = StrfTime(1) THEN ReportFirst ELSE ReportLast(profile, i),
                   name[1])]]

InitReport ==
    /\ \E profile \in Profiles, kind \in Kinds, n \in 1..MaxPlayers :
          ac_data = ReportFiles(profile, kind, n)
    /\ pc = "idle"
    /\ df = None
    /\ changes_df = None
    /\ anomalies_df = None
    /\ report = None
    /\ cwd = <<>>
    /\ api = None

SpecReport == InitReport /\ [][Main]_vars

\* The analysis over a history of two snapshot days of one batter whose
\* Name of the second day is any text of up to MaxNameLen pieces: a '<', a
\* '>' or the chunk "Ann" (two chunks in a row would be one chunk).  The
\* first day has the Name as FanGraphs sends it.
NamePieces == {"<", ">", "Ann"}

NameTexts ==
    {name \in UNION {[1..n -> NamePieces] : n \in 0..MaxNameLen} :
        \A i \in 1..(Len(name) - 1) : ~(name[i] = "Ann" /\ name[i + 1] = "Ann")}

NamesFiles(name, player_name) ==
    (FileName(StrfTime(1), "batters") :> <<CsvRow("Ann", ScrapeStats[1], StrfTime(1))>>)
    @@ (FileName(StrfTime(2), "batters") :>
          <<[CsvRow(player_name, ScrapeStats[2], StrfTime(2)) EXCEPT !.Name = name]>>)

InitNames ==
    /\ \E name \in NameTexts, player_name \in {"Ann", "Rob"} :
          ac_data = NamesFiles(name, player_name)
    /\ pc = "idle"
    /\ df = None
    /\ changes_df = None
    /\ anomalies_df = None
    /\ report = None
    /\ cwd = <<>>
    /\ api = None

SpecNames == InitNames /\ [][Analyse]_vars

\* Analysis runs one after another, with scraper runs in between, over a
\* history that starts with two snapshot days of one batter: her second
\* snapshot is one of RunStats, and a later scrape may replace it (on the
\* same day) or add a day.
RunStats ==
    << [PA |-> 70, PTS |-> 190, Team |-> "NYY"],
       [PA |-> 90, PTS |-> 150, Team |-> "BOS"] >>

RunsFiles(last) ==
    (FileName(StrfTime(1), "batters") :> <<CsvRow("Ann", ScrapeStats[1], StrfTime(1))>>)
    @@ (FileName(StrfTime(2), "batters") :> <<CsvRow("Ann", RunStats[last], StrfTime(2))>>)

InitRuns ==
    /\ \E last \in DOMAIN RunStats : ac_data = RunsFiles(last)
    /\ pc = "idle"
    /\ df = None
    /\ changes_df = None
    /\ anomalies_df = None
    /\ report = None
    /\ cwd = <<>>
    /\ api = None

NextRuns == Scrape \/ Main

SpecRuns == InitRuns /\ [][NextRuns]_vars

\* One run of smartStream.py over what the APIs answer: a Monday of up to
\* MaxGames games and possibly a Tuesday of one game; each side of a game
\* has one of two pitchers or none announced; ESPN lists any of two free
\* agents ("a" is part of "Ab", "Ab" and "B" are part of "Bab" but for the
\* case); FanGraphs has the handedness of both pitchers, of one, or fails;
\* the split tables have Boston weak against right-handers only, New York
\* against left-handers only, and no line for the Athletics.
ProbablePitchers == {TBD, <<"A", "b">>, <<"B">>}

TeamPairs ==
    { <<"Boston Red Sox", "New York Yankees">>, <<"New York Yankees", "Boston Red Sox">>,
      <<"Athletics", "New York Yankees">> }

Games ==
    {[away_team |-> pair[1], home_team |-> pair[2], away_pitcher |-> ap, home_pitcher |-> hp] :
        pair \in TeamPairs, ap \in ProbablePitchers, hp \in ProbablePitchers}

Mondays == UNION {[1..n -> Games] : n \in 1..MaxGames}

Tuesday ==
    [day |-> "Tuesday",
     matchups |-> <<[away_team |-> "Athletics", home_team |-> "New York Yankees",
                     away_pitcher |-> <<"B">>, home_pitcher |-> TBD]>>]

EspnLists ==
    { <<>>, << <<<<"a">>, "Boston Red Sox">> >>, << <<<<"B", "a", "b">>, "Athletics">> >>,
      << <<<<"a">>, "Boston Red Sox">>, <<<<"B", "a", "b">>, "Athletics">> >> }

ThrowsTables ==
    { (<<"A", "b">> :> "R") @@ (<<"B">> :> "L"), (<<"A", "b">> :> "L"), <<>> }

Stat(wrc_plus, k_percent) == ("wRC+" :> wrc_plus) @@ ("K%" :> k_percent)

VsRhp == ("BOS" :> Stat(90, 20)) @@ ("NYY" :> Stat(100, 22))
VsLhp == ("BOS" :> Stat(110, 20)) @@ ("NYY" :> Stat(120, 23))

InitStream ==
    /\ \E monday \in Mondays, later \in {<<>>, <<Tuesday>>}, espn \in EspnLists,
          throws \in ThrowsTables :
            api = [start_date |-> StrfTime(1),
                   matchups_by_day |-> <<[day |-> "Monday", matchups |-> monday]>> \o later,
                   espn |-> espn,
                   pitcher_handedness |-> throws,
                   lhp_stats |-> VsLhp,
                   rhp_stats |-> VsRhp]
    /\ ac_data = <<>>
    /\ pc = "idle"
    /\ df = None
    /\ changes_df = None
    /\ anomalies_df = None
    /\ report = None
    /\ cwd = <<>>

SpecStream == InitStream /\ [][SmartStream]_vars

\* ------------------------------------------------------------------ claims

HasChanges == changes_df # None

\* The rows of main's df that belong to the group `key`, and their dates.
RowsOfKey(key) == {i \in DOMAIN df : <<df[i].clean_name, df[i].player_type>> = key}
DatesOfKey(key) == {df[i].date : i \in RowsOfKey(key)}

\* The delta records of the group `key`.
DeltasOfKey(key) ==
    {i \in DOMAIN changes_df :
        <<changes_df[i].player_name, changes_df[i].player_type>> = key}

AllKeys == Range(KeyOrder)

\* C1: calculate_changes emits exactly one delta record for every (cleaned
\* name, player type) group whose rows span at least two distinct dates and
\* none for any other group, so no two delta records share a key.
C1_OneDeltaPerSpanningGroup ==
    HasChanges =>
        /\ \A key \in AllKeys :
              Cardinality(DeltasOfKey(key)) =
                  IF Cardinality(DatesOfKey(key)) >= 2 THEN 1 ELSE 0
        /\ \A i \in DOMAIN changes_df :
              <<changes_df[i].player_name, changes_df[i].player_type>> \in AllKeys
        /\ \A i, j \in DOMAIN changes_df :
              (/\ changes_df[i].player_name = changes_df[j].player_name
               /\ changes_df[i].player_type = changes_df[j].player_type) => i = j

\* A delta table with a record, beside a group that has rows and no record.
C1_Witness ==
    /\ HasChanges
    /\ changes_df # <<>>
    /\ \E key \in AllKeys :
          /\ Cardinality(RowsOfKey(key)) >= 1
          /\ DeltasOfKey(key) = {}

\* C2: every delta record has first_date strictly before last_date and
\* days_tracked >= 1; a group whose rows all carry one date yields no record.
C2_StrictlyIncreasingDates ==
    HasChanges =>
        /\ \A i \in DOMAIN changes_df :
              /\ changes_df[i].first_date < changes_df[i].last_date
              /\ changes_df[i].days_tracked >= 1
        /\ \A key \in AllKeys :
              Cardinality(DatesOfKey(key)) = 1 => DeltasOfKey(key) = {}

\* Two snapshots of one player on one date, and no delta record for them.
C2_Witness ==
    /\ HasChanges
    /\ \E key \in AllKeys :
          /\ Cardinality(RowsOfKey(key)) >= 2
          /\ Cardinality(DatesOfKey(key)) = 1
          /\ DeltasOfKey(key) = {}

\* main's df without the rows dated strictly between the first and the last
\* date of their group.
IsMiddle(i) ==
    LET key == <<df[i].clean_name, df[i].player_type>>
    IN  /\ \E d \in DatesOfKey(key) : d < df[i].date
        /\ \E d \in DatesOfKey(key) : d > df[i].date

RECURSIVE WithoutMiddle(_)
WithoutMiddle(i) ==
    IF i > Len(df) THEN <<>>
    ELSE (IF IsMiddle(i) THEN <<>> ELSE <<df[i]>>) \o WithoutMiddle(i + 1)

\* C3: the anchors of a delta record are a row of the group's earliest date
\* and a row of its latest date, pa_change and pts_change are last minus
\* first, and the rows dated strictly in between change nothing: the delta
\* tables of df and of df without them are the same.
C3_FirstAndLastAnchors ==
    HasChanges =>
        /\ \A i \in DOMAIN changes_df :
              LET r == changes_df[i]
                  key == <<r.player_name, r.player_type>>
              IN  \E f \in RowsOfKey(key), l \in RowsOfKey(key) :
                    /\ \A d \in DatesOfKey(key) : df[f].date <= d /\ d <= df[l].date
                    /\ r.first_date = df[f].date /\ r.last_date = df[l].date
                    /\ r.first_PA = df[f].PA /\ r.last_PA = df[l].PA
                    /\ r.first_PTS = df[f].PTS /\ r.last_PTS = df[l].PTS
                    /\ r.pa_change = df[l].PA - df[f].PA
                    /\ r.pts_change = df[l].PTS - df[f].PTS
                    /\ r.team = df[l].Team /\ r.position = df[l].POS
        /\ changes_df \in calculate_changes(WithoutMiddle(1))
        /\ calculate_changes(WithoutMiddle(1)) = calculate_changes(df)

\* A delta record of a group that has a snapshot strictly between its first
\* and its last date.
C3_Witness ==
    /\ HasChanges
    /\ \E i \in DOMAIN changes_df, j \in DOMAIN df :
          /\ <<df[j].clean_name, df[j].player_type>> =
                <<changes_df[i].player_name, changes_df[i].player_type>>
          /\ changes_df[i].first_date < df[j].date
          /\ df[j].date < changes_df[i].last_date

\* C4: the percentage changes are guarded against division by zero only:
\* change / first * 100 whenever first # 0 (a negative first PTS included),
\* and 0 when first = 0.
IsPctOf(pct, change, first) ==
    IF first # 0 THEN pct[2] > 0 /\ pct[1] * first = change * 100 * pct[2]
    ELSE pct = Zero

C4_PctGuardedOnlyAgainstZero ==
    HasChanges =>
        \A i \in DOMAIN changes_df :
            LET r == changes_df[i]
            IN  /\ IsPctOf(r.pa_pct_change, r.pa_change, r.first_PA)
                /\ IsPctOf(r.pts_pct_change, r.pts_change, r.first_PTS)

\* C5: a delta record with pa_change = 0 has pts_per_pa_change = 0 and
\* pa_change_per_day = 0; with pa_change # 0 its pts_per_pa_change is
\* pts_change / pa_change.
C5_ZeroPaChangeGuard ==
    HasChanges =>
        \A i \in DOMAIN changes_df :
            LET r == changes_df[i]
            IN  IF r.pa_change = 0
                THEN r.pts_per_pa_change = Zero /\ r.pa_change_per_day = Zero
                ELSE /\ r.pts_per_pa_change[2] > 0
                     /\ r.pts_per_pa_change[1] * r.pa_change =
                            r.pts_change * r.pts_per_pa_change[2]

\* A delta record whose PA did not change while its PTS did, and one whose
\* PA changed.
C5_Witness ==
    /\ HasChanges
    /\ \E i \in DOMAIN changes_df :
          changes_df[i].pa_change = 0 /\ changes_df[i].pts_change # 0
    /\ \E i \in DOMAIN changes_df : changes_df[i].pa_change # 0

Classified == pc = "classified"

\* The delta record changes_df[i] appears in the anomaly table under `label`.
HasLabel(i, label) ==
    \E a \in DOMAIN anomalies_df :
        /\ anomalies_df[a].anomaly_type = label
        /\ anomalies_df[a].player_name = changes_df[i].player_name
        /\ anomalies_df[a].player_type = changes_df[i].player_type

\* |q| >= k and |q| < k for a rational q and a natural k.
AbsAtLeast(q, k) == Abs(q[1]) >= k * q[2]
AbsBelow(q, k) == Abs(q[1]) < k * q[2]

IsMove(r, pa1, pa2, pts1, pts2) ==
    r.first_PA = pa1 /\ r.last_PA = pa2 /\ r.first_PTS = pts1 /\ r.last_PTS = pts2

\* C6: a delta record is labelled 'Major PA Change' iff |pa_pct_change| >= 15
\* or |pa_change| >= 30, both inclusive; PA 100 -> 70 with PTS 200 -> 190 is
\* labelled 'Major PA Change' and not 'PTS Change Without PA Change'.
C6_MajorPaChangeRule ==
    Classified =>
        \A i \in DOMAIN changes_df :
            LET r == changes_df[i]
            IN  /\ HasLabel(i, "Major PA Change") <=>
                      (AbsAtLeast(r.pa_pct_change, 15) \/ Abs(r.pa_change) >= 30)
                /\ IsMove(r, 100, 70, 200, 190) =>
                      /\ HasLabel(i, "Major PA Change")
                      /\ ~HasLabel(i, "PTS Change Without PA Change")

\* A record labelled at each inclusive bound: a PA change of exactly 15 %
\* and fewer than 30 PA.
C6_Witness ==
    /\ Classified
    /\ \E i \in DOMAIN changes_df :
          /\ changes_df[i].pa_pct_change \in {<<15, 1>>, <<-15, 1>>}
          /\ Abs(changes_df[i].pa_change) < 30
          /\ HasLabel(i, "Major PA Change")

\* C7: a delta record is labelled 'PTS Change Without PA Change' iff
\* |pts_pct_change| >= 10 and |pa_pct_change| < 8.
C7_PtsOnlyRule ==
    Classified =>
        \A i \in DOMAIN changes_df :
            LET r == changes_df[i]
            IN  HasLabel(i, "PTS Change Without PA Change") <=>
                    (AbsAtLeast(r.pts_pct_change, 10) /\ AbsBelow(r.pa_pct_change, 8))

\* A PTS change of exactly 10 % with a PA change of exactly 8 %: not
\* labelled, the 8 is exclusive.
C7_Witness ==
    /\ Classified
    /\ \E i \in DOMAIN changes_df :
          /\ RatAbs(changes_df[i].pts_pct_change) = <<10, 1>>
          /\ RatAbs(changes_df[i].pa_pct_change) = <<8, 1>>
          /\ ~HasLabel(i, "PTS Change Without PA Change")

\* The declining cohort of one player type and its baseline, the median of
\* pts_per_pa_change, from the delta table.
InCohort(r, ptype) == r.pa_change < 0 /\ r.pts_change < 0 /\ r.player_type = ptype

RECURSIVE InsertSorted(_, _)
InsertSorted(sorted, v) ==
    IF sorted = <<>> THEN <<v>>
    ELSE IF RatLeq(v, Head(sorted)) THEN <<v>> \o sorted
    ELSE <<Head(sorted)>> \o InsertSorted(Tail(sorted), v)

RECURSIVE Ascending(_)
Ascending(values) ==
    IF values = <<>> THEN <<>> ELSE InsertSorted(Ascending(Tail(values)), Head(values))

CohortRatios(ptype) ==
    LET cohort == SelectSeq(changes_df, LAMBDA r : InCohort(r, ptype))
    IN  Ascending([i \in DOMAIN cohort |-> cohort[i].pts_per_pa_change])

CohortBaseline(ptype) ==
    LET s == CohortRatios(ptype)
        n == Len(s)
        lo == s[n \div 2]
        hi == s[(n \div 2) + 1]
    IN  IF n = 0 THEN NaN
        ELSE IF n % 2 = 1 THEN s[(n + 1) \div 2]
        ELSE Rat(lo[1] * hi[2] + hi[1] * lo[2], 2 * lo[2] * hi[2])

\* |pts_change| > 1.5 * |pa_change * baseline|
DropsFaster(r, baseline) ==
    2 * Abs(r.pts_change) * baseline[2] > 3 * Abs(r.pa_change) * Abs(baseline[1])

\* C8: a delta record is labelled 'Unusual PTS Drop Rate' iff it is in the
\* declining cohort and |pts_change| > 1.5 * |pa_change * baseline|, the
\* baseline being the median of pts_per_pa_change over the declining records
\* of its own player type.
C8_UnusualDropRule ==
    Classified =>
        \A i \in DOMAIN changes_df :
            LET r == changes_df[i]
            IN  HasLabel(i, "Unusual PTS Drop Rate") <=>
                    /\ InCohort(r, r.player_type)
                    /\ DropsFaster(r, CohortBaseline(r.player_type))

\* Declining batters and declining pitchers with different baselines, a
\* labelled record, and a declining record that is labelled under the
\* baseline of its own type though the other type's would not label it.
C8_Witness ==
    /\ Classified
    /\ CohortRatios("batter") # <<>>
    /\ CohortRatios("pitcher") # <<>>
    /\ CohortBaseline("batter") # CohortBaseline("pitcher")
    /\ \E i \in DOMAIN changes_df :
          LET r == changes_df[i]
              other == IF r.player_type = "batter" THEN "pitcher" ELSE "batter"
          IN  /\ HasLabel(i, "Unusual PTS Drop Rate")
              /\ ~DropsFaster(r, CohortBaseline(other))

IsDrop(r, pa, pts) == r.player_type = "pitcher" /\ r.pa_change = pa /\ r.pts_change = pts

LabelsOf(i) ==
    {l \in {"Major PA Change", "PTS Change Without PA Change", "Unusual PTS Drop Rate"} :
        HasLabel(i, l)}

\* C10, as stated: PA 100 -> 98 with PTS 200 -> 170 is labelled 'PTS Change
\* Without PA Change' and nothing else, whatever else is in the delta table.
C10_AsStated ==
    Classified =>
        \A i \in DOMAIN changes_df :
            IsMove(changes_df[i], 100, 98, 200, 170) =>
                LabelsOf(i) = {"PTS Change Without PA Change"}

\* C10, amended: PA 100 -> 98 with PTS 200 -> 170 is labelled 'PTS Change
\* Without PA Change' and not 'Major PA Change'; it is labelled 'Unusual PTS
\* Drop Rate' exactly when the baseline of the declining players of its type
\* is below 10, and so not when it is the only declining player of its type.
C10_PtsOnlyExample ==
    Classified =>
        \A i \in DOMAIN changes_df :
            LET r == changes_df[i]
                baseline == CohortBaseline(r.player_type)
            IN  IsMove(r, 100, 98, 200, 170) =>
                    /\ HasLabel(i, "PTS Change Without PA Change")
                    /\ ~HasLabel(i, "Major PA Change")
                    /\ HasLabel(i, "Unusual PTS Drop Rate") <=> RatLess(baseline, <<10, 1>>)
                    /\ Len(CohortRatios(r.player_type)) = 1 =>
                          LabelsOf(i) = {"PTS Change Without PA Change"}

\* The record of the example beside declining players of the other type
\* only: 'PTS Change Without PA Change' is its one label.
C10_Witness ==
    /\ Classified
    /\ \E i \in DOMAIN changes_df :
          /\ IsMove(changes_df[i], 100, 98, 200, 170)
          /\ Len(CohortRatios(changes_df[i].player_type)) = 1
          /\ Len(changes_df) > 1
          /\ LabelsOf(i) = {"PTS Change Without PA Change"}

\* The rule of each label, in the words of the classifier's description.
Matches(r, label) ==
    CASE label = "Major PA Change" ->
            AbsAtLeast(r.pa_pct_change, 15) \/ Abs(r.pa_change) >= 30
      [] label = "PTS Change Without PA Change" ->
            AbsAtLeast(r.pts_pct_change, 10) /\ AbsBelow(r.pa_pct_change, 8)
      [] label = "Unusual PTS Drop Rate" ->
            InCohort(r, r.player_type) /\ DropsFaster(r, CohortBaseline(r.player_type))

\* The rows of the anomaly table that are the delta record i under `label`.
RowsUnder(i, label) ==
    {a \in DOMAIN anomalies_df : anomalies_df[a] = changes_df[i] @@ [anomaly_type |-> label]}

\* The delta record an anomaly row was made from, and the rank of its label.
RecordOf(a) ==
    CHOOSE i \in DOMAIN changes_df :
        /\ changes_df[i].player_name = anomalies_df[a].player_name
        /\ changes_df[i].player_type = anomalies_df[a].player_type
LabelRank(a) == CHOOSE k \in DOMAIN LabelOrder : LabelOrder[k] = anomalies_df[a].anomaly_type

\* C11: the anomaly table is the row-wise concatenation of the three matched
\* subsets: a delta record appears once under every label whose rule it
\* satisfies and under no other label, so a record matching k rules appears
\* exactly k times and one matching no rule does not appear; every row of
\* the anomaly table is a delta record with one label added, and the rows
\* come subset after subset, each in the order of the delta table.
C11_ConcatenationOfSubsets ==
    Classified =>
        /\ \A i \in DOMAIN changes_df : \A label \in Range(LabelOrder) :
              Cardinality(RowsUnder(i, label)) =
                  IF Matches(changes_df[i], label) THEN 1 ELSE 0
        /\ \A a \in DOMAIN anomalies_df :
              \E i \in DOMAIN changes_df : \E label \in Range(LabelOrder) :
                  a \in RowsUnder(i, label)
        /\ \A a, b \in DOMAIN anomalies_df :
              a < b => \/ LabelRank(a) < LabelRank(b)
                       \/ LabelRank(a) = LabelRank(b) /\ RecordOf(a) < RecordOf(b)

\* A table with a record under two labels and a record under none: two
\* anomaly rows of one delta record.
C11_Witness ==
    /\ Classified
    /\ \E i, k \in DOMAIN changes_df :
          /\ Cardinality(LabelsOf(i)) = 2
          /\ LabelsOf(k) = {}
    /\ Len(anomalies_df) = 2

\* The delta table without its j-th record, and the labels a table gives
\* to the record r.
Without(j) ==
    [k \in 1..(Len(changes_df) - 1) |-> IF k < j THEN changes_df[k] ELSE changes_df[k + 1]]

LabelsAmong(anomalies, r) ==
    {anomalies[a].anomaly_type :
        a \in {b \in DOMAIN anomalies :
                  /\ anomalies[b].player_name = r.player_name
                  /\ anomalies[b].player_type = r.player_type}}

LabelsIn(table, r) == LabelsAmong(identify_anomalies(table), r)

RecordLabels == {"Major PA Change", "PTS Change Without PA Change"}

\* C12, as stated: the labels of a delta record are a function of the record
\* and the thresholds alone: a table that holds the record but lacks some
\* other record gives it the same set of labels.
C12_AsStated ==
    Classified =>
        \A j \in DOMAIN changes_df :
            LET anomalies == identify_anomalies(Without(j))
            IN  \A i \in DOMAIN changes_df \ {j} :
                    LabelsAmong(anomalies, changes_df[i]) = LabelsOf(i)

\* C12, amended: 'Major PA Change' and 'PTS Change Without PA Change' are a
\* function of the record and the thresholds alone; 'Unusual PTS Drop Rate'
\* depends also on the declining records of the same player type, whose
\* median is its baseline: a table that lacks some other record gives a
\* record the same first two labels, and the same set of labels when the
\* lacking record is not a declining record of the same player type.
C12_RecordAndOwnCohort ==
    Classified =>
        \A j \in DOMAIN changes_df :
            LET anomalies == identify_anomalies(Without(j))
            IN  \A i \in DOMAIN changes_df \ {j} :
                    LET r == changes_df[i]
                        labels == LabelsAmong(anomalies, r)
                    IN  /\ labels \cap RecordLabels = LabelsOf(i) \cap RecordLabels
                        /\ ~InCohort(changes_df[j], r.player_type) => labels = LabelsOf(i)

\* A record is labelled 'Unusual PTS Drop Rate' beside a declining record of
\* the other player type and keeps the label without it, and it loses the
\* label without a declining record of its own type.
C12_Witness ==
    /\ Classified
    /\ \E i, j, k \in DOMAIN changes_df :
          LET r == changes_df[i]
          IN  /\ i # j /\ i # k
              /\ "Unusual PTS Drop Rate" \in LabelsOf(i)
              /\ Declining(changes_df[j]) /\ changes_df[j].player_type # r.player_type
              /\ LabelsIn(Without(j), r) = LabelsOf(i)
              /\ InCohort(changes_df[k], r.player_type)
              /\ "Unusual PTS Drop Rate" \notin LabelsIn(Without(k), r)

\* C13: identify_anomalies leaves its input as it is: over the step the
\* delta table has the same rows in the same order with the same field
\* values, no row of it has an anomaly_type field, and neither the combined
\* table nor any snapshot file changes.
C13_InputUnchanged ==
    [][(pc = "calculated" /\ pc' = "classified") =>
          /\ changes_df' = changes_df
          /\ \A i \in DOMAIN changes_df' : "anomaly_type" \notin DOMAIN changes_df'[i]
          /\ df' = df
          /\ ac_data' = ac_data]_vars

\* The classifier has labelled a copy of a row under the first rule and
\* another row under the third, and the rows of the input carry no label.
C13_Witness ==
    /\ Classified
    /\ \E a, b \in DOMAIN anomalies_df :
          /\ anomalies_df[a].anomaly_type = "Major PA Change"
          /\ anomalies_df[b].anomaly_type = "Unusual PTS Drop Rate"
          /\ anomalies_df[a].player_name # anomalies_df[b].player_name
    /\ \A i \in DOMAIN changes_df : "anomaly_type" \notin DOMAIN changes_df[i]

Loaded == pc # "idle" /\ changes_df = None

\* The files the loader reads and whose leading token is a date, and the
\* rows of those files.
IsDate(token) == token \in Range(Calendar)
Successful == {n \in DOMAIN ac_data : ac_data[n] # Unreadable /\ IsDate(n[1])}
SourceRows == UNION {{<<n, k>> : k \in DOMAIN ac_data[n]} : n \in Successful}

\* C15: every row of the combined table carries the date that is the
\* leading '_'-separated token of its file's name and the player type
\* 'batter' exactly when the file's name contains 'batters', 'pitcher'
\* otherwise, its other fields being those of the file's row; the combined
\* table has exactly the rows of the successfully loaded files, each as
\* often as the files hold it.
C15_RowsCarryFileDateAndType ==
    (Loaded /\ df # None) =>
        LET Tagged(s) ==
                [c \in DOMAIN ac_data[s[1]][s[2]] \cup {"player_type"} |->
                    IF c = "date" THEN CHOOSE d \in DOMAIN Calendar : Calendar[d] = s[1][1]
                    ELSE IF c = "player_type"
                    THEN (IF "batters" \in Range(s[1]) THEN "batter" ELSE "pitcher")
                    ELSE ac_data[s[1]][s[2]][c]]
        IN  /\ Len(df) = Cardinality(SourceRows)
            /\ \A s \in SourceRows :
                  Cardinality({i \in DOMAIN df : df[i] = Tagged(s)}) =
                      Cardinality({u \in SourceRows : Tagged(u) = Tagged(s)})

\* A combined table of batter rows of two dates and of pitcher rows, some
\* from a file whose name holds neither 'batters' nor 'pitchers', while a
\* file of the folder was left out.
C15_Witness ==
    /\ Loaded /\ df # None
    /\ \E i, j, k \in DOMAIN df :
          /\ df[i].player_type = "batter" /\ df[j].player_type = "batter"
          /\ df[i].date # df[j].date
          /\ df[k].player_type = "pitcher"
    /\ \E n \in Successful : n[3] = "hitters"
    /\ Successful # DOMAIN ac_data

\* C16: a file that fails to load, on reading it or on parsing its date, is
\* skipped and the load goes on: the loader returns, the rows of every file
\* that loads are in the combined table, those of the files after a failed
\* one too, the table has no further row, and the loader returns None
\* exactly when no file loaded successfully.
C16_FailedFilesSkipped ==
    Loaded =>
        /\ df = None <=> Successful = {}
        /\ df # None =>
              /\ Len(df) = SumLen(ac_data, Successful)
              /\ \A n \in Successful : \A k \in DOMAIN ac_data[n] :
                    \E i \in DOMAIN df :
                        /\ Calendar[df[i].date] = n[1]
                        /\ df[i].PlayerName = ac_data[n][k].PlayerName
                        /\ df[i].PA = ac_data[n][k].PA
                        /\ df[i].PTS = ac_data[n][k].PTS

\* A folder whose first file in sorted order has no date in its name and
\* whose second cannot be read, and a table with the rows of later files.
C16_Witness ==
    /\ Loaded /\ df # None /\ df # <<>>
    /\ <<"#notes">> \in DOMAIN ac_data
    /\ \E n \in DOMAIN ac_data : ac_data[n] = Unreadable
    /\ \E n \in Successful :
          /\ ac_data[n] # <<>>
          /\ \A f \in DOMAIN ac_data \ Successful : FileBefore(f, n)

\* The output files of the analysis, and the steps from stage to stage in
\* the order load, delta computation, classification, report,
\* visualization, save; "done" is main having returned.
OutputNames ==
    {"projection_anomalies.csv", "all_projection_changes.csv", "projection_summary_stats.csv"}
Outputs(files) == [n \in DOMAIN files \cap OutputNames |-> files[n]]
StageOrder ==
    { <<"idle", "loaded">>, <<"loaded", "calculated">>, <<"calculated", "classified">>,
      <<"classified", "reported">>, <<"reported", "visualized">>, <<"visualized", "done">> }
EarlyReturn == { <<"idle", "done">>, <<"loaded", "done">> }

\* C17: when the loader returns no table or an empty one, main returns at
\* once: no delta table, anomaly table or report is made and no output file
\* is written; when the delta table is empty main returns as well, with no
\* anomaly table or report and no output file written.  Every step of a run
\* leads to the next stage in the order load, delta computation,
\* classification, report, visualization, save, or is one of these two
\* returns, and the output files change only in the save step.
C17_StagesInOrder ==
    [][/\ pc' # pc => <<pc, pc'>> \in StageOrder \cup EarlyReturn
       /\ (pc = "idle" /\ pc' # "idle" /\ (df' = None \/ df' = <<>>)) =>
             /\ pc' = "done"
             /\ changes_df' = None /\ anomalies_df' = None /\ report' = None
             /\ cwd' = cwd
       /\ (pc = "loaded" /\ changes_df' = <<>>) =>
             /\ pc' = "done"
             /\ anomalies_df' = None /\ report' = None
             /\ cwd' = cwd
       /\ <<pc, pc'>> \in EarlyReturn =>
             \/ df' = None \/ df' = <<>>
             \/ changes_df' = <<>>
       /\ Outputs(cwd') # Outputs(cwd) => pc = "visualized" /\ pc' = "done"]_vars

\* main has returned on an empty combined table, loaded from a folder that
\* holds files, and no file is written.
C17_Witness ==
    /\ pc = "done"
    /\ df = <<>>
    /\ DOMAIN ac_data # {}
    /\ changes_df = None /\ anomalies_df = None /\ report = None
    /\ cwd = <<>>

\* The report is printed.
Reported == report # None

\* The anomaly records of one type, and the magnitude the report is said to
\* sort a type by: the PA percentage for 'Major PA Change', the PTS
\* percentage for the other types.
RecordsOfType(anomaly_type) ==
    {a \in DOMAIN anomalies_df : anomalies_df[a].anomaly_type = anomaly_type}
SaidMagnitude(anomaly_type, r) ==
    IF anomaly_type = "Major PA Change" THEN RatAbs(r.pa_pct_change)
    ELSE RatAbs(r.pts_pct_change)

\* C18: create_summary_report emits for every anomaly type the records of
\* the type, at most 15 of them, in non-increasing order of magnitude, the
\* magnitude being |pa_pct_change| for 'Major PA Change' and
\* |pts_pct_change| for 'PTS Change Without PA Change' and 'Unusual PTS Drop
\* Rate'; of a type with more than 15 records the 15 of largest magnitude
\* are emitted.
C18_TopFifteenByMagnitude ==
    Reported =>
        \A s \in {k \in DOMAIN report : "anomaly_type" \in DOMAIN report[k]} :
            LET section == report[s]
                type == section.anomaly_type
                lines == section.lines
                group == RecordsOfType(type)
                shown == {a \in group :
                            \E k \in DOMAIN lines :
                                lines[k].player_name = anomalies_df[a].player_name}
            IN  /\ Len(lines) <= 15
                /\ Len(lines) = IF Cardinality(group) > 15 THEN 15 ELSE Cardinality(group)
                /\ Cardinality(shown) = Len(lines)
                /\ \A j, k \in DOMAIN lines :
                      j < k => RatLeq(SaidMagnitude(type, lines[k]),
                                      SaidMagnitude(type, lines[j]))
                /\ \A a \in group \ shown : \A b \in shown :
                      RatLeq(SaidMagnitude(type, anomalies_df[a]),
                             SaidMagnitude(type, anomalies_df[b]))

\* The files are saved, and the value of a metric in the summary file.
Saved == pc = "done" /\ "projection_summary_stats.csv" \in DOMAIN cwd
ValueOf(metric) ==
    LET summary == cwd["projection_summary_stats.csv"]
    IN  summary[CHOOSE k \in DOMAIN summary : summary[k].Metric = metric].Value

RECURSIVE Total(_, _)
Total(column, rows) ==
    IF rows = {} THEN 0
    ELSE LET i == CHOOSE j \in rows : TRUE
         IN  changes_df[i][column] + Total(column, rows \ {i})

\* q is the mean of the column over all delta records.
IsMeanOf(q, column) == q[1] * Len(changes_df) = Total(column, DOMAIN changes_df) * q[2]
\* q is the largest (sign = 1) or smallest (sign = -1) value of the column
\* over all delta records.
IsExtremeOf(q, column, sign) ==
    /\ \E i \in DOMAIN changes_df : q = <<changes_df[i][column], 1>>
    /\ \A i \in DOMAIN changes_df : sign * changes_df[i][column] <= sign * q[1]

\* C19: whenever the delta table is non-empty, with or without anomalies,
\* the run ends with the summary statistics written and the number of
\* players reported, and they range over the whole delta table: 'Total
\* Players' is the number of delta records, 'Total Anomalies' the number of
\* rows of the anomaly table (0 when it is empty), and the PA and PTS means
\* and extrema are those of all delta records.
C19_SummaryOverAllDeltas ==
    (pc = "done" /\ changes_df # None /\ changes_df # <<>>) =>
        /\ Saved
        /\ report[1].total_players = Len(changes_df)
        /\ ValueOf("Total Players") = <<Len(changes_df), 1>>
        /\ ValueOf("Total Anomalies") = <<Len(anomalies_df), 1>>
        /\ IsMeanOf(ValueOf("Avg PA Change"), "pa_change")
        /\ IsMeanOf(ValueOf("Avg PTS Change"), "pts_change")
        /\ IsExtremeOf(ValueOf("Max PA Increase"), "pa_change", 1)
        /\ IsExtremeOf(ValueOf("Max PA Decrease"), "pa_change", -1)
        /\ IsExtremeOf(ValueOf("Max PTS Increase"), "pts_change", 1)
        /\ IsExtremeOf(ValueOf("Max PTS Decrease"), "pts_change", -1)

\* A run with anomalies whose largest PA change and whose largest PTS change
\* belong to records without a label, and a summary that shows them.
C19_Witness ==
    /\ Saved
    /\ anomalies_df # <<>>
    /\ \E i, j \in DOMAIN changes_df :
          /\ LabelsOf(i) = {} /\ LabelsOf(j) = {}
          /\ ValueOf("Max PTS Decrease") = <<changes_df[i].pts_change, 1>>
          /\ ValueOf("Total Players") = <<Len(changes_df), 1>>
          /\ Len(anomalies_df) < Len(changes_df)

\* C20: the snapshot history is append-only: over every step, of a scraper
\* run or of an analysis run, each snapshot file of ac_data is still there
\* afterwards with the rows it had, also when the scraper runs again on the
\* date of an earlier run.
C20_AppendOnlyHistory ==
    [][\A n \in DOMAIN ac_data : n \in DOMAIN ac_data' /\ ac_data'[n] = ac_data[n]]_vars

\* ---- C21: name cleaning

Cleaned == df # None /\ \A i \in DOMAIN df : "clean_name" \in DOMAIN df[i]

\* The text between name[i] and the first '<' after it; <<>> when there is
\* no '<' after it or nothing in between.
TextAfter(name, i) ==
    LET closes == {j \in (i + 1)..Len(name) : name[j] = "<"}
    IN  IF closes = {} THEN <<>>
        ELSE LET j == CHOOSE m \in closes : \A n \in closes : m <= n
             IN  SubSeq(name, i + 1, j - 1)

\* Rows of one cleaned name and type and of two dates are the anchors of
\* one delta record.
SameGroup ==
    changes_df # None =>
        \A i, j \in DOMAIN df :
            (/\ df[i].clean_name = df[j].clean_name
             /\ df[i].player_type = df[j].player_type
             /\ df[i].date < df[j].date)
            => \E k \in DOMAIN changes_df :
                  /\ changes_df[k].player_name = df[i].clean_name
                  /\ changes_df[k].player_type = df[i].player_type
                  /\ changes_df[k].first_date <= df[i].date
                  /\ changes_df[k].last_date >= df[j].date
                  /\ \A m \in DOMAIN changes_df :
                        (/\ changes_df[m].player_name = df[i].clean_name
                         /\ changes_df[m].player_type = df[i].player_type) => m = k

\* C21 as stated: the cleaned name of a row is the text between the first
\* '>' of its Name and the '<' that follows, when there is such a text that
\* is not empty, and its PlayerName otherwise; rows of one cleaned name and
\* type are one group.
C21_FirstGreaterThan ==
    Cleaned =>
        /\ \A i \in DOMAIN df :
              LET gts == {g \in DOMAIN df[i].Name : df[i].Name[g] = ">"}
                  first == CHOOSE g \in gts : \A h \in gts : g <= h
              IN  df[i].clean_name =
                    IF gts # {} /\ TextAfter(df[i].Name, first) # <<>>
                    THEN Join(TextAfter(df[i].Name, first))
                    ELSE df[i].PlayerName
        /\ SameGroup

\* C21, amended: the cleaned name of a row is the text between a '>' of
\* its Name and the '<' that follows, for the first '>' that has such a text
\* that is not empty, and its PlayerName when no '>' has one; rows of one
\* cleaned name and type are one group.
C21_FirstGreaterThanWithText ==
    Cleaned =>
        /\ \A i \in DOMAIN df :
              LET with_text == {g \in DOMAIN df[i].Name :
                                   /\ df[i].Name[g] = ">"
                                   /\ TextAfter(df[i].Name, g) # <<>>}
                  first == CHOOSE g \in with_text : \A h \in with_text : g <= h
              IN  df[i].clean_name =
                    IF with_text # {}
                    THEN Join(TextAfter(df[i].Name, first))
                    ELSE df[i].PlayerName
        /\ SameGroup

\* A Name whose first '>' has no text and whose second has one, grouped with
\* the row of the anchor-wrapped Name.
C21_Witness ==
    /\ Cleaned
    /\ changes_df # None
    /\ Len(changes_df) = 1
    /\ \E i \in DOMAIN df :
          /\ df[i].Name # AnnAnchor
          /\ \E g, h \in DOMAIN df[i].Name :
                /\ g < h
                /\ df[i].Name[g] = ">"
                /\ df[i].Name[h] = ">"
                /\ TextAfter(df[i].Name, g) = <<>>
                /\ TextAfter(df[i].Name, h) # <<>>
          /\ df[i].PlayerName = "Rob"
          /\ df[i].clean_name = "Ann"

\* ---- C22: the baseline is positive, the rule compares the ratio with it

Positive(q) == q[1] > 0 /\ q[2] > 0

\* q > 1.5 * b for rationals of positive denominator.
ExceedsByHalf(q, b) == 2 * q[1] * b[2] > 3 * b[1] * q[2]

CohortOf(ptype) == {i \in DOMAIN changes_df : InCohort(changes_df[i], ptype)}

UnusualOf(ptype) ==
    {i \in DOMAIN changes_df :
        /\ changes_df[i].player_type = ptype
        /\ HasLabel(i, "Unusual PTS Drop Rate")}

\* C23: of every player type at most half (rounded down) of the declining
\* records are labelled 'Unusual PTS Drop Rate'; the one declining record
\* of a type is never labelled.
C23_AtMostHalfUnusual ==
    Classified =>
        \A ptype \in Range(TypeOrder) :
            /\ Cardinality(UnusualOf(ptype)) <= Cardinality(CohortOf(ptype)) \div 2
            /\ Cardinality(CohortOf(ptype)) = 1 => UnusualOf(ptype) = {}

\* One type with a single declining record, the other with three of which
\* one is labelled.
C23_Witness ==
    /\ Classified
    /\ \E ptype, other \in Range(TypeOrder) :
          /\ Cardinality(CohortOf(ptype)) = 1
          /\ Cardinality(CohortOf(other)) = 3
          /\ Cardinality(UnusualOf(other)) = 1

\* ---- C24: the per-day rates

RunCompleted == pc = "done" /\ anomalies_df # None

\* A table as to_csv writes it: the dates as text.
AsText(table) ==
    [i \in DOMAIN table |->
        [table[i] EXCEPT !.first_date = Calendar[@], !.last_date = Calendar[@]]]

\* C25: when an analysis run has completed, each of the three output files
\* that is on disk holds the result of that run: the delta table, the
\* summary and the anomaly table.
C25_FilesOfLatestRun ==
    RunCompleted =>
        /\ "all_projection_changes.csv" \in DOMAIN cwd
              => cwd["all_projection_changes.csv"] = AsText(changes_df)
        /\ "projection_summary_stats.csv" \in DOMAIN cwd
              => /\ ValueOf("Total Players") = RatOfInt(Len(changes_df))
                 /\ ValueOf("Total Anomalies") = RatOfInt(Len(anomalies_df))
                 /\ ValueOf("Avg PA Change")
                      = Rat(Total("pa_change", DOMAIN changes_df), Len(changes_df))
        /\ "projection_anomalies.csv" \in DOMAIN cwd
              => cwd["projection_anomalies.csv"] = AsText(anomalies_df)

\* ---- C26: who is written as a streaming option

ResultsWritten == "smartstream_results.txt" \in DOMAIN cwd
ResultLines == cwd["smartstream_results.txt"]

\* The last line of the kind before line i (0: none).
LastBefore(kind, i) ==
    LET at == {j \in 1..(i - 1) : ResultLines[j].line = kind}
    IN  IF at = {} THEN 0 ELSE CHOOSE j \in at : \A k \in at : k <= j

Sides == {"away", "home"}
PitcherOf(game, side) == IF side = "away" THEN game.away_pitcher ELSE game.home_pitcher
TeamOf(game, side) == IF side = "away" THEN game.away_team ELSE game.home_team
OpponentOf(game, side) == IF side = "away" THEN game.home_team ELSE game.away_team

\* The results file has, under the day, a streaming option of this pitcher
\* for his team against the other team of the game.
WrittenAsOption(day, game, side) ==
    \E i \in DOMAIN ResultLines :
        /\ ResultLines[i].line = "option"
        /\ ResultLines[i].pitcher_name = PitcherOf(game, side)
        /\ ResultLines[i].pitcher_team = TeamOf(game, side)
        /\ ResultLines[i + 1].opponent = OpponentOf(game, side)
        /\ LastBefore("day", i) # 0
        /\ ResultLines[LastBefore("day", i)].day = day

OnEspn(pitcher) ==
    \E e \in DOMAIN api.espn :
        \/ IsIn(Lower(pitcher), Lower(api.espn[e][1]))
        \/ IsIn(Lower(api.espn[e][1]), Lower(pitcher))

\* The opponent's line of the split table of the pitcher's hand; wRC+ 0 and
\* K% 0 when the table has no line for the opponent.
FavourableOpponent(game, side) ==
    LET pitcher == PitcherOf(game, side)
        right == pitcher \in DOMAIN api.pitcher_handedness
                 /\ api.pitcher_handedness[pitcher] = "R"
        table == IF right THEN api.rhp_stats ELSE api.lhp_stats
        team == OpponentOf(game, side)
        abbr == IF team \in DOMAIN team_name_mapping THEN team_name_mapping[team] ELSE team
        wrc == IF abbr \in DOMAIN table THEN table[abbr]["wRC+"] ELSE 0
        k == IF abbr \in DOMAIN table THEN table[abbr]["K%"] ELSE 0
    IN  wrc < 100 \/ k > 22

StatedOption(game, side) ==
    /\ PitcherOf(game, side) # TBD
    /\ OnEspn(PitcherOf(game, side))
    /\ FavourableOpponent(game, side)

\* C26: a probable pitcher is written as a streaming option exactly when
\* he is not 'TBD', his lower-cased name contains or is contained in the
\* lower-cased name of an ESPN available pitcher, and the opponent's line of
\* the split table of his hand (vs RHP for 'R' only) has wRC+ < 100 or
\* K% > 22, an opponent without a line counting as 0 and 0.
C26_StreamingOptionIff ==
    ResultsWritten =>
        \A d \in DOMAIN api.matchups_by_day :
            \A g \in DOMAIN api.matchups_by_day[d].matchups :
                \A side \in Sides :
                    LET day == api.matchups_by_day[d].day
                        game == api.matchups_by_day[d].matchups[g]
                    IN  WrittenAsOption(day, game, side) <=> StatedOption(game, side)

\* The same over the games whose two sides do not announce the same name.
DistinctNames(game) == game.away_pitcher # game.home_pitcher \/ game.away_pitcher = TBD

StreamingOptionIffDistinct ==
    ResultsWritten =>
        \A d \in DOMAIN api.matchups_by_day :
            \A g \in DOMAIN api.matchups_by_day[d].matchups :
                \A side \in Sides :
                    LET day == api.matchups_by_day[d].day
                        game == api.matchups_by_day[d].matchups[g]
                    IN  DistinctNames(game) =>
                            (WrittenAsOption(day, game, side) <=> StatedOption(game, side))

\* ---- C27: the options stand under the header of their game

\* C27: every 'Potential streaming option' entry of the results file comes
\* after the header line of its own game, with no header of another game
\* in between.
C27_OptionUnderItsGame ==
    ResultsWritten =>
        \A i \in DOMAIN ResultLines :
            ResultLines[i].line = "option" =>
                LET h == LastBefore("game", i)
                    option == ResultLines[i]
                    opponent == ResultLines[i + 1].opponent
                IN  /\ h # 0
                    /\ \/ /\ ResultLines[h].away_team = option.pitcher_team
                          /\ ResultLines[h].away_pitcher = option.pitcher_name
                          /\ ResultLines[h].home_team = opponent
                       \/ /\ ResultLines[h].home_team = option.pitcher_team
                          /\ ResultLines[h].home_pitcher = option.pitcher_name
                          /\ ResultLines[h].away_team = opponent

====
